---- MODULE Spec2Model ----
(* A model of horizon/dashboards/syspanel/projects/views.py: one view       *)
(* instance serving one request against the remote identity/compute API.    *)
(* Each view method is an action; every API call it makes either returns    *)
(* the remote data or fails.                                                *)
EXTENDS Integers, Sequences, FiniteSets

VARIABLES view, remote, self, method, invoked, failed, outcome, ret, nCalls

vars == <<view, remote, self, method, invoked, failed, outcome, ret, nCalls>>

(* ------------------------------ bounds --------------------------------- *)

MaxCalls == 2
MaxTenants == 3
MaxUsers == 2
MaxRoles == 2
MaxMissing == 1

(* ------------------------------ values --------------------------------- *)

None == "None"
NoRedirect == <<>>
Names == {"a", "b"}
Ids == 1..2
TenantIds == 1..3

QUOTA_FIELDS == <<"metadata_items", "cores", "instances", "injected_files",
                  "injected_file_content_bytes", "volumes", "gigabytes",
                  "ram", "floating_ips">>

PROJECT_INFO_FIELDS == <<"name", "description", "enabled">>

Range(s) == {s[i] : i \in 1..Len(s)}

SeqsUpTo(S, n) == UNION {[1..k -> S] : k \in 0..n}

Views == {"IndexView", "UsersView", "AddUserView", "TenantUsageView",
          "CreateProjectView", "UpdateProjectView"}

ApiOps == {"tenant_get", "tenant_list", "user_list", "user_list_tenant",
           "role_list", "get_default_role", "tenant_quota_defaults",
           "tenant_quota_get", "usage"}

\* django.core.urlresolvers.reverse: the URL of a named page and its arguments
reverse(name, args) == <<name>> \o args

(* ------------------------- the remote API data -------------------------- *)

Entities == [id : Ids, name : Names]
Tenants == [id : TenantIds, name : Names]

\* the users of a tenant, which the views use by their ids
Members == [id : Ids, name : {"a"}]

\* an API object that has the fields of S, each with the value vals gives it
Object(S, vals) == [f \in S |-> vals[f]]

ProjectValues ==
  { [name |-> "p-name", description |-> "p-desc", enabled |-> "True"],
    [name |-> "x", description |-> "x", enabled |-> "x"] }

ProjectObjects ==
  {Object(S, v) : S \in SUBSET Range(PROJECT_INFO_FIELDS), v \in ProjectValues}

QuotaValues ==
  { [metadata_items |-> "q1", cores |-> "q2", instances |-> "q3",
     injected_files |-> "q4", injected_file_content_bytes |-> "q5",
     volumes |-> "q6", gigabytes |-> "q7", ram |-> "q8",
     floating_ips |-> "q9"],
    [f \in Range(QUOTA_FIELDS) |-> "x"] }

QuotaObjects ==
  {Object(Range(QUOTA_FIELDS) \ M, v) :
     M \in {X \in SUBSET Range(QUOTA_FIELDS) :
               Cardinality(X) <= MaxMissing \/ X = Range(QUOTA_FIELDS)},
     v \in QuotaValues}

\* request.GET, which the workflow views start their initial data from
InheritedInitials == { <<>>, [step |-> "s", name |-> "stale", cores |-> "stale"] }

RemoteFor(v) ==
  CASE v = "IndexView" -> [tenants : SeqsUpTo(Tenants, MaxTenants)]
    [] v = "UsersView" -> [tenant : {[id |-> "t1", name |-> "a"]},
                           all_users : SeqsUpTo(Entities, MaxUsers),
                           tenant_users : SeqsUpTo(Members, MaxUsers)]
    [] v = "AddUserView" -> [tenant : {[id |-> "t1", name |-> "a"]},
                             roles : SeqsUpTo(Entities, MaxRoles),
                             default_role : {<<>>, [id |-> 1], [name |-> "a"]}]
    [] v = "TenantUsageView" -> [instances : SeqsUpTo(Names, MaxUsers)]
    [] v = "CreateProjectView" -> [quota_defaults : QuotaObjects,
                                   GET : InheritedInitials]
    [] v = "UpdateProjectView" -> [project : ProjectObjects,
                                   quota : QuotaObjects,
                                   GET : InheritedInitials]

(* --------------------------- API responses ------------------------------ *)

Ok(v) == [ok |-> TRUE, value |-> v]
Failure == [ok |-> FALSE]

\* the response of API operation op when the operations of failing fail
Respond(failing, op, v) == IF op \in failing THEN Failure ELSE Ok(v)

(* ------------------------- results of a method -------------------------- *)

Return(s, v) == [self |-> s, outcome |-> "return", ret |-> v]
Redirect(s, url) == [self |-> s, outcome |-> "redirect", ret |-> url]
Raise(s, exc) == [self |-> s, outcome |-> "raise", ret |-> exc]

\* an API operation is invoked
Called(s, op) == [s EXCEPT !.calls[op] = @ + 1]

\* horizon.exceptions.handle: the failure becomes a user-facing message; with
\* a redirect the request is redirected (the handler does not return).
handle(s, message, redirect) ==
  [self |-> [s EXCEPT !.messages = Append(@, message)],
   raised |-> redirect # NoRedirect]

\* the except clause: handle, then the rest of the method if handle returns
Except(s, message, redirect, rest) ==
  LET h == handle(s, message, redirect)
  IN IF h.raised THEN Redirect(h.self, redirect)
     ELSE [rest EXCEPT !.self = h.self]

getattr(obj, field, default) ==
  IF field \in DOMAIN obj THEN obj[field] ELSE default

setitem(d, k, v) ==
  [x \in DOMAIN d \cup {k} |-> IF x = k THEN v ELSE d[x]]

\* for field in fields: initial[field] = getattr(obj, field, None)
RECURSIVE set_fields(_, _, _)
set_fields(initial, fields, obj) ==
  IF fields = <<>> THEN initial
  ELSE set_fields(setitem(initial, Head(fields), getattr(obj, Head(fields), None)),
                  Tail(fields), obj)

\* list.sort(key=id, reverse=...): a stable sort, equal ids keep their order
RECURSIVE insert_by_id(_, _, _)
insert_by_id(s, x, descending) ==
  IF s = <<>> THEN <<x>>
  ELSE IF (IF descending THEN Head(s).id < x.id ELSE Head(s).id > x.id)
       THEN <<x>> \o s
       ELSE <<Head(s)>> \o insert_by_id(Tail(s), x, descending)

\* the sort with the reverse flag lost
RECURSIVE sort_by_id_ascending(_, _)
sort_by_id_ascending(s, descending) ==
  IF s = <<>> THEN <<>>
  ELSE insert_by_id(sort_by_id_ascending(SubSeq(s, 1, Len(s) - 1), descending),
                    s[Len(s)], FALSE)

RECURSIVE sort_by_id(_, _)
sort_by_id(s, descending) ==
  IF s = <<>> THEN <<>>
  ELSE insert_by_id(sort_by_id(SubSeq(s, 1, Len(s) - 1), descending),
                    s[Len(s)], descending)

(* ------------------------------ IndexView ------------------------------- *)

\* get_data without its try/except
IndexView_get_data_unguarded(s, api) ==
  LET s1 == Called(s, "tenant_list")
  IN IF api.tenant_list.ok
     THEN Return(s1, sort_by_id(api.tenant_list.value, TRUE))
     ELSE Raise(s1, "APIError")

IndexView_get_data(s, api) ==
  LET s1 == Called(s, "tenant_list")
  IN IF api.tenant_list.ok
     THEN Return(s1, sort_by_id(api.tenant_list.value, TRUE))
     ELSE Except(s1, "Unable to retrieve project list.", NoRedirect,
                 Return(s1, sort_by_id(<<>>, TRUE)))

(* -------------------------- TenantContextMixin -------------------------- *)

\* get_object without the hasattr test
get_object_uncached(s, api) ==
  LET s1 == Called(s, "tenant_get")
  IN IF api.tenant_get.ok
     THEN Return([s1 EXCEPT !._object = <<api.tenant_get.value>>],
                 api.tenant_get.value)
     ELSE Except(s1, "Unable to retrieve project information.",
                 reverse("horizon:syspanel:projects:index", <<>>),
                 Raise(s1, "AttributeError"))

get_object(s, api) ==
  IF Len(s._object) > 0 THEN Return(s, s._object[1])
  ELSE LET s1 == Called(s, "tenant_get")
       IN IF api.tenant_get.ok
          THEN Return([s1 EXCEPT !._object = <<api.tenant_get.value>>],
                      api.tenant_get.value)
          ELSE Except(s1, "Unable to retrieve project information.",
                      reverse("horizon:syspanel:projects:index", <<>>),
                      Raise(s1, "AttributeError"))

TenantContextMixin_get_context_data(s, api) ==
  LET context == <<>>
      r == get_object(s, api)
  IN IF r.outcome = "return"
     THEN Return(r.self, setitem(context, "tenant", r.ret))
     ELSE r

(* ------------------------------ UsersView ------------------------------- *)

\* _get_shared_data without the hasattr test
_get_shared_data_uncached(s, api) ==
  LET redirect == reverse("horizon:syspanel:projects:index", <<>>)
      except(s1) == Except(s1, "Unable to retrieve users.", redirect,
                           Raise(s1, "AttributeError"))
      s1 == Called(s, "tenant_get")
  IN IF ~api.tenant_get.ok THEN except(s1)
     ELSE LET s2 == Called(s1, "user_list")
          IN IF ~api.user_list.ok THEN except(s2)
             ELSE LET s3 == Called(s2, "user_list_tenant")
                  IN IF ~api.user_list_tenant.ok THEN except(s3)
                     ELSE LET data ==
                                [tenant |-> api.tenant_get.value,
                                 all_users |-> api.user_list.value,
                                 tenant_users |-> api.user_list_tenant.value]
                          IN Return([s3 EXCEPT !._shared_data = <<data>>], data)

_get_shared_data(s, api) ==
  LET redirect == reverse("horizon:syspanel:projects:index", <<>>)
      except(s1) == Except(s1, "Unable to retrieve users.", redirect,
                           Raise(s1, "AttributeError"))
  IN IF Len(s._shared_data) > 0 THEN Return(s, s._shared_data[1])
     ELSE LET s1 == Called(s, "tenant_get")
          IN IF ~api.tenant_get.ok THEN except(s1)
             ELSE LET s2 == Called(s1, "user_list")
                  IN IF ~api.user_list.ok THEN except(s2)
                     ELSE LET s3 == Called(s2, "user_list_tenant")
                          IN IF ~api.user_list_tenant.ok THEN except(s3)
                             ELSE LET data ==
                                        [tenant |-> api.tenant_get.value,
                                         all_users |-> api.user_list.value,
                                         tenant_users |-> api.user_list_tenant.value]
                                  IN Return([s3 EXCEPT !._shared_data = <<data>>],
                                            data)

get_tenant_users_data(s, api) ==
  LET r == _get_shared_data(s, api)
  IN IF r.outcome = "return" THEN Return(r.self, r.ret.tenant_users) ELSE r

\* the filter with its test inverted
add_users_inverted(all_users, tenant_users) ==
  LET tenant_user_ids == [i \in 1..Len(tenant_users) |-> tenant_users[i].id]
  IN SelectSeq(all_users, LAMBDA u : u.id \in Range(tenant_user_ids))

\* the filter comparing users instead of their ids
add_users_by_object(all_users, tenant_users) ==
  SelectSeq(all_users, LAMBDA u : u \notin Range(tenant_users))

\* filter(lambda u: u.id not in tenant_user_ids, all_users)
add_users(all_users, tenant_users) ==
  LET tenant_user_ids == [i \in 1..Len(tenant_users) |-> tenant_users[i].id]
  IN SelectSeq(all_users, LAMBDA u : u.id \notin Range(tenant_user_ids))

get_add_users_data(s, api) ==
  LET r1 == _get_shared_data(s, api)
  IN IF r1.outcome # "return" THEN r1
     ELSE LET r2 == _get_shared_data(r1.self, api)
          IN IF r2.outcome # "return" THEN r2
             ELSE Return(r2.self, add_users(r2.ret.all_users, r1.ret.tenant_users))

UsersView_get_context_data(s, api) ==
  LET context == <<>>
      r == _get_shared_data(s, api)
  IN IF r.outcome = "return"
     THEN Return(r.self, setitem(context, "tenant", r.ret.tenant))
     ELSE r

(* ----------------------------- AddUserView ------------------------------ *)

AddUserView_get_context_data(s, api) ==
  LET r == TenantContextMixin_get_context_data(s, api)
  IN IF r.outcome = "return"
     THEN Return(r.self, setitem(setitem(r.ret, "tenant_id", s.kwargs.tenant_id),
                                 "user_id", s.kwargs.user_id))
     ELSE r

get_form_kwargs(s, api) ==
  LET kwargs == <<>>
      s1 == Called(s, "role_list")
  IN IF api.role_list.ok
     THEN Return(s1, setitem(kwargs, "roles",
                             sort_by_id(api.role_list.value, FALSE)))
     ELSE Except(s1, "Unable to retrieve roles.",
                 reverse("horizon:syspanel:projects:users", <<s.kwargs.tenant_id>>),
                 Raise(s1, "UnboundLocalError"))

AddUserView_get_initial(s, api) ==
  LET s1 == Called(s, "get_default_role")
  IN IF api.get_default_role.ok
     THEN Return(s1, [tenant_id |-> s.kwargs.tenant_id,
                      user_id |-> s.kwargs.user_id,
                      role_id |-> getattr(api.get_default_role.value, "id", None)])
     ELSE Raise(s1, "APIError")

(* --------------------------- TenantUsageView ---------------------------- *)

\* usage.UsageView.get_data: summarizes the tenant's usage into self.usage; a
\* failure of the usage retrieval is handled and leaves the usage empty.
UsageView_get_data(s, api) ==
  LET s1 == Called(s, "usage")
  IN IF api.usage.ok
     THEN Return([s1 EXCEPT !.usage = api.usage.value], api.usage.value)
     ELSE Except(s1, "Unable to retrieve usage information.", NoRedirect,
                 Return(s1, <<>>))

TenantUsageView_get_data(s, api) ==
  LET r == UsageView_get_data(s, api)
  IN IF r.outcome = "return" THEN Return(r.self, r.self.usage) ELSE r

(* -------------------------- CreateProjectView --------------------------- *)

add_error_to_step(s, error_msg, step) ==
  [s EXCEPT !.step_errors = Append(@, <<step, error_msg>>)]

\* get_initial reporting the failure on the workflow's first step
CreateProjectView_get_initial_wrong_step(s, api) ==
  LET initial == s.GET
      s1 == Called(s, "tenant_quota_defaults")
  IN IF api.tenant_quota_defaults.ok
     THEN Return(s1, set_fields(initial, QUOTA_FIELDS,
                                api.tenant_quota_defaults.value))
     ELSE Return(add_error_to_step(s1, "Unable to retrieve default quota values.",
                                   "create_project"),
                 initial)

CreateProjectView_get_initial(s, api) ==
  LET initial == s.GET
      s1 == Called(s, "tenant_quota_defaults")
  IN IF api.tenant_quota_defaults.ok
     THEN Return(s1, set_fields(initial, QUOTA_FIELDS,
                                api.tenant_quota_defaults.value))
     ELSE Return(add_error_to_step(s1, "Unable to retrieve default quota values.",
                                   "update_quotas"),
                 initial)

(* -------------------------- UpdateProjectView --------------------------- *)

\* get_initial filling the quota fields from the project instead of the quota
UpdateProjectView_get_initial_quota_from_project(s, api) ==
  LET project_id == s.kwargs.tenant_id
      initial == setitem(s.GET, "project_id", project_id)
      redirect == reverse("horizon:syspanel:projects:index", <<>>)
      except(s1, initial1) ==
        Except(s1, "Unable to retrieve project details.", redirect,
               Return(s1, initial1))
      s1 == Called(s, "tenant_get")
  IN IF ~api.tenant_get.ok THEN except(s1, initial)
     ELSE LET initial1 == set_fields(initial, PROJECT_INFO_FIELDS,
                                     api.tenant_get.value)
              s2 == Called(s1, "tenant_quota_get")
          IN IF ~api.tenant_quota_get.ok THEN except(s2, initial1)
             ELSE Return(s2, set_fields(initial1, QUOTA_FIELDS,
                                        api.tenant_get.value))

\* get_initial going on with the project fields when the quota fetch fails
UpdateProjectView_get_initial_partial(s, api) ==
  LET project_id == s.kwargs.tenant_id
      initial == setitem(s.GET, "project_id", project_id)
      redirect == reverse("horizon:syspanel:projects:index", <<>>)
      s1 == Called(s, "tenant_get")
  IN IF ~api.tenant_get.ok
     THEN Except(s1, "Unable to retrieve project details.", redirect,
                 Return(s1, initial))
     ELSE LET initial1 == set_fields(initial, PROJECT_INFO_FIELDS,
                                     api.tenant_get.value)
              s2 == Called(s1, "tenant_quota_get")
          IN IF ~api.tenant_quota_get.ok
             THEN Except(s2, "Unable to retrieve project details.", NoRedirect,
                         Return(s2, initial1))
             ELSE Return(s2, set_fields(initial1, QUOTA_FIELDS,
                                        api.tenant_quota_get.value))

UpdateProjectView_get_initial(s, api) ==
  LET project_id == s.kwargs.tenant_id
      initial == setitem(s.GET, "project_id", project_id)
      redirect == reverse("horizon:syspanel:projects:index", <<>>)
      except(s1, initial1) ==
        Except(s1, "Unable to retrieve project details.", redirect,
               Return(s1, initial1))
      s1 == Called(s, "tenant_get")
  IN IF ~api.tenant_get.ok THEN except(s1, initial)
     ELSE LET initial1 == set_fields(initial, PROJECT_INFO_FIELDS,
                                     api.tenant_get.value)
              s2 == Called(s1, "tenant_quota_get")
          IN IF ~api.tenant_quota_get.ok THEN except(s2, initial1)
             ELSE Return(s2, set_fields(initial1, QUOTA_FIELDS,
                                        api.tenant_quota_get.value))

(* ------------------------------ the machine ----------------------------- *)

\* a view instance at the start of a request: no _object and no
\* _shared_data attribute yet, nothing called, no message
NewView(GET) ==
  [kwargs |-> [tenant_id |-> "t1", user_id |-> "u1"],
   GET |-> GET,
   _object |-> <<>>,
   _shared_data |-> <<>>,
   usage |-> <<>>,
   calls |-> [op \in ApiOps |-> 0],
   messages |-> <<>>,
   step_errors |-> <<>>]

InitOf(views) ==
  /\ view \in views
  /\ remote \in RemoteFor(view)
  /\ self = NewView(IF "GET" \in DOMAIN remote THEN remote.GET ELSE <<>>)
  /\ method = "none"
  /\ invoked = {}
  /\ failed = {}
  /\ outcome = "none"
  /\ ret = None
  /\ nCalls = 0

\* the responses of the API operations ops, those of failing failing
Responses(ops, failing) ==
  [op \in ops |->
     Respond(failing, op,
       CASE op = "tenant_list" -> remote.tenants
         [] op = "tenant_get" ->
              IF view = "UpdateProjectView" THEN remote.project ELSE remote.tenant
         [] op = "user_list" -> remote.all_users
         [] op = "user_list_tenant" -> remote.tenant_users
         [] op = "role_list" -> remote.roles
         [] op = "get_default_role" -> remote.default_role
         [] op = "usage" -> remote.instances
         [] op = "tenant_quota_defaults" -> remote.quota_defaults
         [] op = "tenant_quota_get" -> remote.quota)]

\* the failures one call can meet: none, or one of the API operations ops it
\* may use (every method ends at the first failure)
Failing(ops) == {{}} \cup {{op} : op \in ops}

UsersOps == {"tenant_get", "user_list", "user_list_tenant"}

\* Method m was called with the operations of failing failing and ended as r.
\* invoked and failed record the API operations the call invoked and the one
\* of them that failed.
Called_method(m, failing, r) ==
  /\ nCalls < MaxCalls
  /\ nCalls' = nCalls + 1
  /\ method' = m
  /\ self' = r.self
  /\ outcome' = r.outcome
  /\ ret' = r.ret
  /\ invoked' = {op \in ApiOps : self'.calls[op] > self.calls[op]}
  /\ failed' = failing \cap invoked'
  /\ UNCHANGED <<view, remote>>

IndexGetData ==
  /\ view = "IndexView"
  /\ \E failing \in Failing({"tenant_list"}) :
       \E r \in {IndexView_get_data(self, Responses({"tenant_list"}, failing))} :
         Called_method("get_data", failing, r)

UsersGetTenantUsersData ==
  /\ view = "UsersView"
  /\ \E failing \in Failing(UsersOps) :
       \E r \in {get_tenant_users_data(self, Responses(UsersOps, failing))} :
         Called_method("get_tenant_users_data", failing, r)

UsersGetAddUsersData ==
  /\ view = "UsersView"
  /\ \E failing \in Failing(UsersOps) :
       \E r \in {get_add_users_data(self, Responses(UsersOps, failing))} :
         Called_method("get_add_users_data", failing, r)

UsersGetContextData ==
  /\ view = "UsersView"
  /\ \E failing \in Failing(UsersOps) :
       \E r \in {UsersView_get_context_data(self, Responses(UsersOps, failing))} :
         Called_method("get_context_data", failing, r)

AddUserGetObject ==
  /\ view = "AddUserView"
  /\ \E failing \in Failing({"tenant_get"}) :
       \E r \in {get_object(self, Responses({"tenant_get"}, failing))} :
         Called_method("get_object", failing, r)

AddUserGetContextData ==
  /\ view = "AddUserView"
  /\ \E failing \in Failing({"tenant_get"}) :
       \E r \in {AddUserView_get_context_data(self, Responses({"tenant_get"}, failing))} :
         Called_method("get_context_data", failing, r)

AddUserGetFormKwargs ==
  /\ view = "AddUserView"
  /\ \E failing \in Failing({"role_list"}) :
       \E r \in {get_form_kwargs(self, Responses({"role_list"}, failing))} :
         Called_method("get_form_kwargs", failing, r)

AddUserGetInitial ==
  /\ view = "AddUserView"
  /\ \E failing \in Failing({"get_default_role"}) :
       \E r \in {AddUserView_get_initial(self, Responses({"get_default_role"}, failing))} :
         Called_method("get_initial", failing, r)

TenantUsageGetData ==
  /\ view = "TenantUsageView"
  /\ \E failing \in Failing({"usage"}) :
       \E r \in {TenantUsageView_get_data(self, Responses({"usage"}, failing))} :
         Called_method("get_data", failing, r)

CreateProjectGetInitial ==
  /\ view = "CreateProjectView"
  /\ \E failing \in Failing({"tenant_quota_defaults"}) :
       \E r \in {CreateProjectView_get_initial(self, Responses({"tenant_quota_defaults"}, failing))} :
         Called_method("get_initial", failing, r)

UpdateProjectGetInitial ==
  /\ view = "UpdateProjectView"
  /\ \E failing \in Failing({"tenant_get", "tenant_quota_get"}) :
       \E r \in {UpdateProjectView_get_initial(self, Responses({"tenant_get", "tenant_quota_get"}, failing))} :
         Called_method("get_initial", failing, r)

\* every view of the module
Init == InitOf(Views)

Next ==
  \/ IndexGetData
  \/ UsersGetTenantUsersData
  \/ UsersGetAddUsersData
  \/ UsersGetContextData
  \/ AddUserGetObject
  \/ AddUserGetContextData
  \/ AddUserGetFormKwargs
  \/ AddUserGetInitial
  \/ TenantUsageGetData
  \/ CreateProjectGetInitial
  \/ UpdateProjectGetInitial

Spec == Init /\ [][Next]_vars

\* the project listing
InitIndex == InitOf({"IndexView"})

NextIndex == IndexGetData

SpecIndex == InitIndex /\ [][NextIndex]_vars

\* the views of one tenant's users
InitUsers == InitOf({"UsersView", "AddUserView"})

NextUsers ==
  \/ UsersGetTenantUsersData
  \/ UsersGetAddUsersData
  \/ UsersGetContextData
  \/ AddUserGetObject
  \/ AddUserGetContextData
  \/ AddUserGetFormKwargs
  \/ AddUserGetInitial

SpecUsers == InitUsers /\ [][NextUsers]_vars

\* the create and update project workflows
InitWorkflow == InitOf({"CreateProjectView", "UpdateProjectView"})

NextWorkflow ==
  \/ CreateProjectGetInitial
  \/ UpdateProjectGetInitial

SpecWorkflow == InitWorkflow /\ [][NextWorkflow]_vars

(* ------------------------------ properties ------------------------------ *)

Count(s, x) == Cardinality({i \in 1..Len(s) : s[i] = x})

SameMultiset(s, t) ==
  /\ Len(s) = Len(t)
  /\ \A x \in Range(s) \cup Range(t) : Count(s, x) = Count(t, x)

IdsOf(s) == {s[i].id : i \in 1..Len(s)}

LastMessage(m) ==
  /\ Len(self.messages) > 0
  /\ self.messages[Len(self.messages)] = m

IndexListed == view = "IndexView" /\ method = "get_data" /\ failed = {}

IndexFailed == view = "IndexView" /\ method = "get_data" /\ failed # {}

\* C1: when the tenant-list call succeeds, IndexView.get_data returns the
\* tenants the call returned, the same multiset, each tenant's id greater than
\* or equal to the id of the tenant that follows it.
C1_SortedByIdDescending ==
  IndexListed =>
    /\ outcome = "return"
    /\ SameMultiset(ret, remote.tenants)
    /\ \A i \in 1..(Len(ret) - 1) : ret[i].id >= ret[i + 1].id

C1_Witness ==
  /\ IndexListed
  /\ Len(ret) = 3
  /\ ret # remote.tenants
  /\ ret[1].id > ret[2].id
  /\ ret[2].id = ret[3].id

\* C3: when the tenant-list call fails, IndexView.get_data reports
\* 'Unable to retrieve project list.' through the error handler and returns
\* an empty list; no exception leaves get_data.
C3_EmptyListOnFailure ==
  IndexFailed =>
    /\ outcome = "return"
    /\ ret = <<>>
    /\ LastMessage("Unable to retrieve project list.")

C3_Witness ==
  /\ IndexFailed
  /\ outcome = "return"
  /\ Len(remote.tenants) > 0
  /\ Len(self.messages) = 1

UsersFetched == view = "UsersView" /\ Len(self._shared_data) > 0

UsersReturned(m) == view = "UsersView" /\ method = m /\ outcome = "return"

NoDuplicateIds(s) == \A i, j \in 1..Len(s) : s[i].id = s[j].id => i = j

\* r holds the elements of s at the positions of keep, in their order in s
SelectedAt(r, s, keep) ==
  /\ Len(r) = Cardinality(keep)
  /\ \A i \in keep : r[Cardinality({j \in keep : j <= i})] = s[i]

\* r is all minus members by id: the users of all whose id no member has
IsDifferenceById(r, all, members) ==
  SelectedAt(r, all, {i \in 1..Len(all) : all[i].id \notin IdsOf(members)})

\* C2, as stated: the addable users are exactly the users of all_users whose
\* id is not the id of a tenant user, and no user id occurs more than once in
\* the result.
C2_Original ==
  UsersReturned("get_add_users_data") =>
    /\ IsDifferenceById(ret, remote.all_users, remote.tenant_users)
    /\ NoDuplicateIds(ret)

\* C2, amended: the addable users are exactly the users of all_users whose id
\* is not the id of a tenant user, each as often as all_users holds it; no
\* user id occurs more than once in the result when none occurs more than
\* once in all_users.
C2_DifferenceById ==
  UsersReturned("get_add_users_data") =>
    /\ IsDifferenceById(ret, remote.all_users, remote.tenant_users)
    /\ NoDuplicateIds(remote.all_users) => NoDuplicateIds(ret)

C2_Witness ==
  /\ UsersReturned("get_add_users_data")
  /\ NoDuplicateIds(remote.all_users)
  /\ Len(ret) = 1
  /\ Len(remote.all_users) = 2
  /\ remote.tenant_users # <<>>

RECURSIVE IsSubsequence(_, _)
IsSubsequence(r, s) ==
  IF r = <<>> THEN TRUE
  ELSE IF s = <<>> THEN FALSE
  ELSE IF Head(r) = Head(s) THEN IsSubsequence(Tail(r), Tail(s))
  ELSE IsSubsequence(r, Tail(s))

\* C10: the addable list and the tenant-users list share no user id, every
\* user of all_users is in the addable list or has the id of a tenant user,
\* and the addable list keeps the relative order of all_users.
C10_TablesPartitionById ==
  /\ UsersReturned("get_tenant_users_data") => ret = remote.tenant_users
  /\ UsersReturned("get_add_users_data") =>
       /\ IdsOf(ret) \cap IdsOf(remote.tenant_users) = {}
       /\ \A i \in 1..Len(remote.all_users) :
            \/ remote.all_users[i] \in Range(ret)
            \/ remote.all_users[i].id \in IdsOf(remote.tenant_users)
       /\ IsSubsequence(ret, remote.all_users)

C10_Witness ==
  /\ UsersReturned("get_add_users_data")
  /\ Len(ret) = 2
  /\ ret[1] # ret[2]
  /\ remote.tenant_users # <<>>

\* the state of C6: what is cached is what was fetched, each operation was
\* called once when no fetch failed before, and the methods return from it
C6_State ==
  /\ UsersFetched =>
       /\ self._shared_data[1] = [tenant |-> remote.tenant,
                                  all_users |-> remote.all_users,
                                  tenant_users |-> remote.tenant_users]
       /\ self.messages = <<>> => \A op \in UsersOps : self.calls[op] = 1
  /\ UsersReturned("get_tenant_users_data") =>
       UsersFetched /\ ret = self._shared_data[1].tenant_users
  /\ UsersReturned("get_context_data") =>
       UsersFetched /\ ret["tenant"] = self._shared_data[1].tenant
  /\ UsersReturned("get_add_users_data") =>
       /\ UsersFetched
       /\ Range(ret) \subseteq Range(self._shared_data[1].all_users)
       /\ IdsOf(ret) \cap IdsOf(self._shared_data[1].tenant_users) = {}

\* the steps of C6: once fetched, a call issues no API call and returns
C6_Step ==
  UsersFetched =>
    /\ self'.calls = self.calls
    /\ self'._shared_data = self._shared_data
    /\ invoked' = {}
    /\ outcome' = "return"

\* C6: on one UsersView instance, once the fetch has succeeded, no call of
\* get_tenant_users_data, get_add_users_data or get_context_data issues a
\* further tenant_get or user_list call (each was called exactly once when the
\* first fetch succeeded), and the three methods read the same fetched data.
C6_FetchCachedPerRequest == []C6_State /\ [][C6_Step]_vars

C6_Witness ==
  /\ UsersFetched
  /\ nCalls = 2
  /\ self.messages = <<>>
  /\ method = "get_add_users_data"
  /\ Len(ret) > 0

\* the methods that go through get_object or _get_shared_data
Memoized ==
  IF view = "UsersView"
  THEN {"get_tenant_users_data", "get_add_users_data", "get_context_data"}
  ELSE {"get_object", "get_context_data"}

Remembered ==
  IF view = "UsersView" THEN Len(self._shared_data) > 0 ELSE Len(self._object) > 0

\* C8, as stated: the fetches of get_object and _get_shared_data are invoked
\* at most once on one instance, also when the invocation failed.
C8_Original == \A op \in UsersOps : self.calls[op] <= 1

C8_Step ==
  /\ \A op \in ApiOps : self'.calls[op] <= self.calls[op] + 1
  /\ method' \in Memoized =>
       /\ Remembered => invoked' = {}
       /\ ~Remembered => "tenant_get" \in invoked'

\* C8, amended: a call invokes each API operation at most once; only a fetch
\* that succeeded is remembered: after it, get_object, get_context_data,
\* get_tenant_users_data and get_add_users_data invoke no API operation,
\* while after a failed fetch the next call of them invokes tenant_get again.
C8_OnlySuccessRemembered == [][C8_Step]_vars

C8_Witness ==
  /\ view = "AddUserView"
  /\ method = "get_object"
  /\ self.calls["tenant_get"] = 2
  /\ Len(self.messages) = 1
  /\ outcome = "return"

\* the value of field f of an API object, None when the object lacks it
FieldOf(obj, f) == IF f \in DOMAIN obj THEN obj[f] ELSE None

UpdateCalled == view = "UpdateProjectView" /\ method = "get_initial"

\* C4: when the project fetch and the quota fetch succeed,
\* UpdateProjectView.get_initial returns initial data whose project_id is the
\* request's tenant_id, whose name, description and enabled are the fetched
\* project's and whose nine quota fields are the fetched quota's, a field the
\* fetched object lacks being None.
C4_InitialReflectsFetched ==
  UpdateCalled /\ failed = {} =>
    /\ outcome = "return"
    /\ ret["project_id"] = self.kwargs.tenant_id
    /\ \A f \in Range(PROJECT_INFO_FIELDS) : ret[f] = FieldOf(remote.project, f)
    /\ \A f \in Range(QUOTA_FIELDS) : ret[f] = FieldOf(remote.quota, f)

C4_Witness ==
  /\ UpdateCalled /\ failed = {} /\ outcome = "return"
  /\ "name" \in DOMAIN self.GET
  /\ "name" \notin DOMAIN remote.project
  /\ "description" \in DOMAIN remote.project
  /\ "cores" \notin DOMAIN remote.quota
  /\ ret["ram"] = "q8"

\* C9: when the project fetch or the quota fetch fails,
\* UpdateProjectView.get_initial reports 'Unable to retrieve project details.'
\* and redirects to the projects index, returning no initial data; after a
\* failed project fetch the quota fetch is not called.
C9_NoPartialInitial ==
  UpdateCalled /\ failed # {} =>
    /\ outcome = "redirect"
    /\ ret = <<"horizon:syspanel:projects:index">>
    /\ LastMessage("Unable to retrieve project details.")
    /\ "tenant_get" \in failed => "tenant_quota_get" \notin invoked

C9_Witness ==
  /\ UpdateCalled
  /\ failed = {"tenant_quota_get"}
  /\ invoked = {"tenant_get", "tenant_quota_get"}
  /\ outcome = "redirect"
  /\ DOMAIN remote.project # {}

CreateCalled == view = "CreateProjectView" /\ method = "get_initial"

QuotaStepError == <<"update_quotas", "Unable to retrieve default quota values.">>

C7_State ==
  CreateCalled =>
    /\ outcome = "return"
    /\ self.messages = <<>>
    /\ failed # {} => ret = self.GET
    /\ failed = {} =>
         \A f \in Range(QUOTA_FIELDS) : ret[f] = FieldOf(remote.quota_defaults, f)

C7_Step ==
  view = "CreateProjectView" =>
    self'.step_errors = IF failed' # {}
                        THEN Append(self.step_errors, QuotaStepError)
                        ELSE self.step_errors

\* C7: when the quota-defaults call fails, CreateProjectView.get_initial
\* neither raises nor redirects, adds 'Unable to retrieve default quota
\* values.' to the 'update_quotas' step exactly once and returns the inherited
\* initial data; when the call succeeds it adds no error and each quota field
\* of the initial data is the fetched default, None when missing.
C7_StepScopedError == []C7_State /\ [][C7_Step]_vars

C7_Witness ==
  /\ CreateCalled
  /\ failed # {}
  /\ self.step_errors = <<QuotaStepError>>
  /\ nCalls = 2
  /\ DOMAIN ret # {}

\* C5: a failure of any API call of any view is caught in the view and turned
\* into a user-facing message, and the view returns or redirects: the failure
\* never leaves the view method.
C5_UniformErrorPolicy ==
  failed # {} =>
    /\ outcome \in {"return", "redirect"}
    /\ Len(self.messages) + Len(self.step_errors) > 0

====
